---- MODULE Spec2Model ----
(***************************************************************************)
(* A model of setup_langgraph.py: the recursive materialisation of a       *)
(* nested mapping (names to sub-mappings or strings) as directories and    *)
(* files, and the driver that materialises the fixed project template.     *)
(*                                                                         *)
(* A path is the sequence of its components from the filesystem root <<>>. *)
(* The filesystem is a function from the existing paths to their entries;  *)
(* `free` is the space left on the device, in characters.                  *)
(***************************************************************************)
EXTENDS Integers, Sequences, FiniteSets, TLC

VARIABLES
    mode,    \* "driver": create_directory_structure(); "direct": create_recursive(root, tree)
    root,    \* driver: the current working directory; direct: the path argument
    tree,    \* driver: the `structure` mapping; direct: the contents argument
    fs,      \* the filesystem
    free,    \* free space on the device
    stack,   \* the call stack of create_recursive (the driver's loop at the bottom)
    status,  \* "idle", "running", "ok" (returned), "error" (an exception reached the caller)
    out,     \* what the run has printed
    log,     \* the filesystem calls the run has made, in order
    prev,    \* how the previous invocation ended ("none" for the first)
    fs0,     \* the filesystem when the invocation started
    free0    \* the free space when the invocation started

vars == <<mode, root, tree, fs, free, stack, status, out, log, prev, fs0, free0>>

----------------------------------------------------------------------------
(* Bounds of the model.                                                    *)

\* The largest number of nodes below the top mapping of an enumerated tree.
MaxNodes == 3

\* Free space that no run exhausts.
Ample == 5000

\* Free space that a non-empty payload exhausts.
Scarce == 1

\* Child names and payloads of the enumerated trees; contents and names the
\* filesystem holds before the run.
Names == {"a", "b"}
Payloads == {"", "ab"}
OldTexts == {"c", "cd", "cde"}
OtherName == "z"

----------------------------------------------------------------------------
(* Tree nodes: a mapping (ordered, as a Python dict is) or a string.       *)

File(s) == [isdict |-> FALSE, text |-> s, items |-> <<>>]
Dir(its) == [isdict |-> TRUE, text |-> "", items |-> its]
Item(n, c) == [name |-> n, content |-> c]

Min(a, b) == IF a < b THEN a ELSE b

\* The literal of create_directory_structure.
structure ==
  Dir(<<
    Item("src", Dir(<<
        Item("__init__.py", File("")),
        Item("agent.py", File("# Code for constructing your graph\n\ndef create_agent():\n    \"\"\"Create and return your LangGraph agent\"\"\"\n    pass\n")),
        Item("tools.py", File("# Tools for your graph\n\n# Define your tools here\n")),
        Item("nodes.py", File("# Node functions for your graph\n\n# Define your node functions here\n")),
        Item("schemas.py", File("# State definition of your graph\n\nclass State:\n    \"\"\"Define your state class here\"\"\"\n    pass\n")),
        Item("config.yaml", File("# Configuration for your LangGraph application\n\nmodels:\n  default: gpt-4\n  fallback: gpt-3.5-turbo\n\nendpoints:\n  base_url: https://api.example.com\n  timeout: 30\n\nlogging:\n  level: INFO\n  file: logs/app.log\n")),
        Item("utils.py", File("# config.py\nimport os\nimport yaml\n\ndef load_yaml_config(yaml_path: str = \"config.yaml\") -> dict:\n    \"\"\"\n    Load the unified YAML configuration from the specified path.\n    \"\"\"\n    if not os.path.exists(yaml_path):\n        raise FileNotFoundError(f\"Config file not found at {yaml_path}\")\n    with open(yaml_path, \"r\", encoding=\"utf-8\") as f:\n        config_data = yaml.safe_load(f)\n    return config_data\n")) >>)),
    Item("server.py", File("from fastapi import FastAPI, HTTPException, Request\nfrom pydantic import BaseModel\nfrom typing import Dict, Any, Optional\nimport os\nimport yaml\nimport logging\n\napp = FastAPI(title=\"LangGraph API\")\n\nclass QueryInput(BaseModel):\n    query: str\n    context: Optional[Dict[str, Any]] = None\n\n@app.get(\"/\")\nasync def root():\n    return {\"message\": \"LangGraph API is running\"}\n\n@app.post(\"/api/query\")\nasync def process_query(input_data: QueryInput):\n    try:\n        # Here you would integrate with your LangGraph agent\n        # Example: response = your_agent(input_data.query, input_data.context)\n        \n        # For now, return a placeholder response\n        return {\n            \"status\": \"success\",\n            \"response\": f\"Processed query: {input_data.query}\"\n        }\n    except Exception as e:\n        logging.error(f\"Error processing query: {str(e)}\")\n        raise HTTPException(status_code=500, detail=str(e))\n\n@app.get(\"/api/health\")\nasync def health_check():\n    return {\"status\": \"healthy\"}\n\nif __name__ == \"__main__\":\n    import uvicorn\n    uvicorn.run(\"server:app\", host=\"0.0.0.0\", port=8080, reload=True)\n")),
    Item("requirements.txt", File("langgraph\nlangchain_community\nlanggraph-sdk\nlanggraph-checkpoint\nlangchain-core\nlangsmith\nlangchain_anthropic\ntavily-python\nlangchain_openai\nfastapi\nuvicorn\npydantic\npython-dotenv\nyaml\n")),
    Item(".env", File("# Environment variables\n# API keys and other sensitive information\n# OPENAI_API_KEY=your_api_key_here\n# ANTHROPIC_API_KEY=your_api_key_here\n")),
    Item("langgraph.json", File("{\n    \"graphs\": {\n        \"agent_v1\": \"./src/agent.py:graph_name\"\n    },\n    \"env\": \".env\",\n    \"python_version\": \"3.11\",\n    \"dependencies\": [\n        \".\"\n    ]\n}")),
    Item("Dockerfile", File("FROM python:3.12-slim\n\nWORKDIR /code\n\n# Copy requirements file first for better caching\nCOPY ./requirements.txt .\n\n# Install dependencies\nRUN pip install --no-cache-dir -r requirements.txt\n\n# Copy application code\nCOPY ./src ./src\nCOPY ./server.py ./server.py\n\n# If you have additional packages directory, uncomment the next line\n# COPY ./packages ./packages\n\nEXPOSE 8080\n\n# Run the application\nCMD exec uvicorn server:app --host 0.0.0.0 --port 8080\n")) >>)

MsgStart == "Creating LangGraph project structure in current directory..."
MsgDone == "Project structure created successfully!"
MsgHint == "Run 'pip install -r requirements.txt' to install dependencies."

----------------------------------------------------------------------------
(* The filesystem calls.                                                   *)

Parent(p) == SubSeq(p, 1, Len(p) - 1)
Prefix(p, k) == SubSeq(p, 1, k)
IsDir(f, p) == p \in DOMAIN f /\ f[p].kind = "dir"
IsFile(f, p) == p \in DOMAIN f /\ f[p].kind = "file"
NewDir == [kind |-> "dir", data |-> "", ro |-> FALSE]
NewFile == [kind |-> "file", data |-> "", ro |-> FALSE]
Put(f, p, e) == [q \in DOMAIN f \cup {p} |-> IF q = p THEN e ELSE f[q]]

Failed(f, fr, e) == [ok |-> FALSE, fs |-> f, free |-> fr, err |-> e]
Done(f, fr) == [ok |-> TRUE, fs |-> f, free |-> fr, err |-> ""]

\* Join with the name left unjoined: create_recursive(name, content).
JoinForgotten(path, name) == <<name>>

\* Join with the variable quoted: os.path.join(path, 'name').
JoinLiteral(path, name) == Append(path, "name")

\* os.path.join(path, name), for a name that is one plain component.
Join(path, name) == Append(path, name)

\* The length of the longest prefix of p that exists.
Deepest(f, p) ==
    CHOOSE k \in 0..Len(p) :
        /\ Prefix(p, k) \in DOMAIN f
        /\ \A j \in (k + 1)..Len(p) : Prefix(p, j) \notin DOMAIN f

\* mkdir(parents=True) without exist_ok: an existing directory is an error.
MkdirNoExistOk(f, fr, p) ==
    IF p \in DOMAIN f THEN Failed(f, fr, "FileExistsError")
    ELSE LET k == Deepest(f, p) IN
         IF f[Prefix(p, k)].kind = "file" THEN Failed(f, fr, "NotADirectoryError")
         ELSE IF f[Prefix(p, k)].ro THEN Failed(f, fr, "PermissionError")
         ELSE Done([q \in DOMAIN f \cup {Prefix(p, j) : j \in (k + 1)..Len(p)} |->
                        IF q \in DOMAIN f THEN f[q] ELSE NewDir], fr)

\* pathlib.Path(p).mkdir(parents=True, exist_ok=True)
MkdirP(f, fr, p) ==
    IF IsDir(f, p) THEN Done(f, fr)
    ELSE IF IsFile(f, p) THEN Failed(f, fr, "FileExistsError")
    ELSE LET k == Deepest(f, p) IN
         IF f[Prefix(p, k)].kind = "file" THEN Failed(f, fr, "NotADirectoryError")
         ELSE IF f[Prefix(p, k)].ro THEN Failed(f, fr, "PermissionError")
         ELSE Done([q \in DOMAIN f \cup {Prefix(p, j) : j \in (k + 1)..Len(p)} |->
                        IF q \in DOMAIN f THEN f[q] ELSE NewDir], fr)

\* A mode that keeps the old content ('r+'): nothing is cut.
TruncateNothing(old) == old

\* What mode 'w' leaves of a file's old content when it opens it.
Truncate(old) == ""

\* open(p, 'w'): the file is created if missing and truncated if present.
OpenW(f, fr, p) ==
    IF IsDir(f, p) THEN Failed(f, fr, "IsADirectoryError")
    ELSE IF Parent(p) \notin DOMAIN f THEN Failed(f, fr, "FileNotFoundError")
    ELSE IF IsFile(f, Parent(p)) THEN Failed(f, fr, "NotADirectoryError")
    ELSE IF IsFile(f, p) THEN
        IF f[p].ro THEN Failed(f, fr, "PermissionError")
        ELSE LET kept == Truncate(f[p].data) IN
             Done([f EXCEPT ![p].data = kept], fr + Len(f[p].data) - Len(kept))
    ELSE IF f[Parent(p)].ro THEN Failed(f, fr, "PermissionError")
    ELSE Done(Put(f, p, NewFile), fr)

\* The text stays in a buffer that is never flushed: the file stays as opened.
WriteTextUnflushed(f, fr, p, s) == Done(f, fr)

\* f.write(s) and the flush on leaving the with block, from offset 0: what the
\* device has room for is written, and the rest is an OSError (no space left).
WriteText(f, fr, p, s) ==
    LET old == f[p].data
        n == Min(Len(s), fr + Min(Len(old), Len(s)))
        new == SubSeq(s, 1, n) \o SubSeq(old, n + 1, Len(old))
        left == fr - (Len(new) - Len(old))
    IN  IF n = Len(s) THEN Done([f EXCEPT ![p].data = new], left)
        ELSE Failed([f EXCEPT ![p].data = new], left, "OSError")

\* The write guarded by `if contents:`: an empty payload opens nothing.
WriteFileSkipEmpty(f, fr, p, s) ==
    IF s = "" THEN Done(f, fr)
    ELSE LET o == OpenW(f, fr, p) IN
         IF o.ok THEN WriteText(o.fs, o.free, p, s) ELSE o

\* with open(path, 'w') as f: f.write(contents)
WriteFile(f, fr, p, s) ==
    LET o == OpenW(f, fr, p) IN
    IF o.ok THEN WriteText(o.fs, o.free, p, s) ELSE o

----------------------------------------------------------------------------
(* create_recursive and the driver, as functions of the filesystem.        *)

RECURSIVE create_recursive(_, _, _), create_items(_, _, _, _)

\* create_recursive(path, contents) from the state st; a state that is not ok
\* is an exception on its way to the caller.
create_recursive(st, path, contents) ==
    IF ~st.ok THEN st
    ELSE IF contents.isdict
         THEN create_items(MkdirP(st.fs, st.free, path), path, contents.items, 1)
         ELSE WriteFile(st.fs, st.free, path, contents.text)

\* for name, content in contents.items(): create_recursive(join(path, name), content)
create_items(st, path, its, i) ==
    IF ~st.ok \/ i > Len(its) THEN st
    ELSE create_items(create_recursive(st, Join(path, its[i].name), its[i].content),
                      path, its, i + 1)

\* The loop of create_directory_structure over structure.items(), run in cwd.
create_directory_structure(st, cwd, struct) == create_items(st, cwd, struct.items, 1)

\* A whole invocation in mode m.
Invoke(m, f, fr, p, t) ==
    IF m = "driver" THEN create_directory_structure(Done(f, fr), p, t)
    ELSE create_recursive(Done(f, fr), p, t)

----------------------------------------------------------------------------
(* The inputs.                                                             *)

ItemNames(its) == {its[i].name : i \in 1..Len(its)}

RECURSIVE Forests(_)
\* The item lists (distinct names, in every order) of at most n nodes in all.
Forests(n) ==
    IF n = 0 THEN {<<>>}
    ELSE {<<>>} \cup
         UNION {UNION {{<<Item(nm, c)>> \o rest :
                           c \in {File(s) : s \in Payloads} \cup {Dir(its) : its \in Forests(k)},
                           rest \in {r \in Forests(n - 1 - k) : nm \notin ItemNames(r)}} :
                       k \in 0..(n - 1)} :
                nm \in Names}

Roots == {<<"a">>, <<"a", "b">>}

Entries ==
    {[kind |-> "dir", data |-> "", ro |-> r] : r \in BOOLEAN}
        \cup {[kind |-> "file", data |-> t, ro |-> FALSE] : t \in OldTexts}
        \cup {[kind |-> "file", data |-> "cd", ro |-> TRUE]}

EmptyFs == (<<>> :> NewDir)

\* The filesystem holding e at p, below plain directories.
FsWith(p, e) ==
    [q \in {Prefix(p, k) : k \in 0..Len(p)} |-> IF q = p THEN e ELSE NewDir]

PrePaths ==
    {<<"a">>, <<"b">>, <<OtherName>>, <<"a", "b">>, <<"a", OtherName>>, <<"a", "b", "a">>}

RerunPrePaths == {<<"a">>, <<"a", "b">>, <<"a", OtherName>>}

TemplatePrePaths ==
    {<<"src">>, <<"src", "agent.py">>, <<"src", OtherName>>, <<"server.py">>,
     <<"Dockerfile">>, <<OtherName>>}

\* The filesystems a run starts from: empty, or with one entry in the way.
FsSet(paths) ==
    {EmptyFs, (<<>> :> [NewDir EXCEPT !.ro = TRUE])}
        \cup {FsWith(p, e) : p \in paths, e \in Entries}

\* The starting filesystems with the free space: one difficulty at a time.
Worlds(paths) ==
    {[fs |-> f, free |-> Ample] : f \in FsSet(paths)}
        \cup {[fs |-> EmptyFs, free |-> Scarce]}

Calls ==
    {[mode |-> "driver", root |-> <<>>, tree |-> Dir(its)] : its \in Forests(MaxNodes)}
        \cup {[mode |-> "direct", root |-> r, tree |-> t] :
                 r \in Roots,
                 t \in {File(s) : s \in Payloads}
                           \cup {Dir(its) : its \in Forests(MaxNodes - 1)}}

InitWith(c, w) ==
    /\ mode = c.mode
    /\ root = c.root
    /\ tree = c.tree
    /\ fs = w.fs
    /\ free = w.free
    /\ stack = <<>>
    /\ status = "idle"
    /\ out = <<>>
    /\ log = <<>>
    /\ prev = "none"
    /\ fs0 = w.fs
    /\ free0 = w.free

Init == \E c \in Calls, w \in Worlds(PrePaths) : InitWith(c, w)

InitRerun == \E c \in Calls, w \in Worlds(RerunPrePaths) : InitWith(c, w)

InitTemplate ==
    \E w \in Worlds(TemplatePrePaths) :
        InitWith([mode |-> "driver", root |-> <<>>, tree |-> structure], w)

----------------------------------------------------------------------------
(* The run, one filesystem call or one step of the interpreter at a time.  *)

Top == stack[Len(stack)]
Pop(stk) == SubSeq(stk, 1, Len(stk) - 1)
Frame(p, c, i) == [path |-> p, node |-> c, i |-> i]

\* The exception caught around the failing call, the loop going on.
PropagateCaughtInLoop(stk) == [stack |-> Pop(stk), status |-> "running"]

\* The exception caught around the driver's loop, the driver going on.
PropagateCaughtInDriver(stk) == [stack |-> <<>>, status |-> "running"]

\* Neither loop nor create_recursive catches anything: an exception leaves
\* every frame and reaches the caller.
Propagate(stk) == [stack |-> <<>>, status |-> "error"]

\* The program is started (the driver prints its first line), or the library
\* function is called.
Begin ==
    /\ status = "idle"
    /\ status' = "running"
    /\ IF mode = "driver"
       THEN /\ out' = Append(out, MsgStart)
            /\ stack' = <<Frame(root, tree, 1)>>
       ELSE /\ out' = out
            /\ stack' = <<Frame(root, tree, 0)>>
    /\ UNCHANGED <<mode, root, tree, fs, free, log, prev, fs0, free0>>

\* contents is a dict: the directory is made.
Mkdir ==
    /\ status = "running" /\ stack # <<>>
    /\ Top.node.isdict /\ Top.i = 0
    /\ LET r == MkdirP(fs, free, Top.path) IN
       /\ fs' = r.fs
       /\ free' = r.free
       /\ log' = Append(log, [op |-> "mkdir", path |-> Top.path, err |-> r.err])
       /\ IF r.ok
          THEN /\ stack' = [stack EXCEPT ![Len(stack)].i = 1]
               /\ status' = status
          ELSE /\ stack' = Propagate(stack).stack
               /\ status' = Propagate(stack).status
    /\ UNCHANGED <<mode, root, tree, out, prev, fs0, free0>>

\* The items taken last first.
CallReversed ==
    /\ status = "running" /\ stack # <<>>
    /\ Top.node.isdict /\ Top.i >= 1 /\ Top.i <= Len(Top.node.items)
    /\ LET it == Top.node.items[Len(Top.node.items) + 1 - Top.i] IN
       stack' = Append([stack EXCEPT ![Len(stack)].i = Top.i + 1],
                       Frame(Join(Top.path, it.name), it.content, 0))
    /\ UNCHANGED <<mode, root, tree, fs, free, status, out, log, prev, fs0, free0>>

\* The next item of the mapping: create_recursive is called on it.
Call ==
    /\ status = "running" /\ stack # <<>>
    /\ Top.node.isdict /\ Top.i >= 1 /\ Top.i <= Len(Top.node.items)
    /\ LET it == Top.node.items[Top.i] IN
       stack' = Append([stack EXCEPT ![Len(stack)].i = Top.i + 1],
                       Frame(Join(Top.path, it.name), it.content, 0))
    /\ UNCHANGED <<mode, root, tree, fs, free, status, out, log, prev, fs0, free0>>

\* contents is a string: the file is written, and the call returns.
Write ==
    /\ status = "running" /\ stack # <<>>
    /\ ~Top.node.isdict
    /\ LET r == WriteFile(fs, free, Top.path, Top.node.text) IN
       /\ fs' = r.fs
       /\ free' = r.free
       /\ log' = Append(log, [op |-> "write", path |-> Top.path, err |-> r.err])
       /\ IF r.ok
          THEN /\ stack' = Pop(stack)
               /\ status' = status
          ELSE /\ stack' = Propagate(stack).stack
               /\ status' = Propagate(stack).status
    /\ UNCHANGED <<mode, root, tree, out, prev, fs0, free0>>

\* The mapping has no more items: the call (or the driver's loop) ends.
Return ==
    /\ status = "running" /\ stack # <<>>
    /\ Top.node.isdict /\ Top.i > Len(Top.node.items)
    /\ stack' = Pop(stack)
    /\ UNCHANGED <<mode, root, tree, fs, free, status, out, log, prev, fs0, free0>>

\* Everything returned: the driver prints its last two lines.
Finish ==
    /\ status = "running" /\ stack = <<>>
    /\ status' = "ok"
    /\ out' = IF mode = "driver" THEN out \o <<MsgDone, MsgHint>> ELSE out
    /\ UNCHANGED <<mode, root, tree, fs, free, stack, log, prev, fs0, free0>>

\* The same invocation again, on the filesystem the last one left.
Rerun ==
    /\ status \in {"ok", "error"}
    /\ prev' = status
    /\ status' = "idle"
    /\ out' = <<>>
    /\ log' = <<>>
    /\ fs0' = fs
    /\ free0' = free
    /\ UNCHANGED <<mode, root, tree, fs, free, stack>>

\* One invocation.
Next == Begin \/ Mkdir \/ Call \/ Write \/ Return \/ Finish

\* Invocations one after the other.
NextAgain == Next \/ Rerun

Spec == Init /\ [][Next]_vars

SpecTemplate == InitTemplate /\ [][Next]_vars

SpecRerun == InitRerun /\ [][NextAgain]_vars

----------------------------------------------------------------------------
TypeOK ==
    /\ status \in {"idle", "running", "ok", "error"}
    /\ <<>> \in DOMAIN fs
    /\ \A p \in DOMAIN fs : p = <<>> \/ IsDir(fs, Parent(p))
    /\ free >= 0

\* The run agrees with create_recursive read as a function.
Agree ==
    status \in {"ok", "error"} =>
        LET r == Invoke(mode, fs0, free0, root, tree) IN
        /\ r.ok = (status = "ok")
        /\ r.fs = fs
        /\ r.free = free

----------------------------------------------------------------------------
(* What the tree declares.                                                 *)

Range(q) == {q[i] : i \in 1..Len(q)}

RECURSIVE PreOrder(_, _), PreOrderItems(_, _, _)
\* The nodes of the tree c put at p, each with its path: a node before the
\* nodes below it, and the items of a mapping in the mapping's order.
PreOrder(p, c) ==
    <<[path |-> p, node |-> c]>>
        \o (IF c.isdict THEN PreOrderItems(p, c.items, 1) ELSE <<>>)

PreOrderItems(p, its, i) ==
    IF i > Len(its) THEN <<>>
    ELSE PreOrder(Append(p, its[i].name), its[i].content) \o PreOrderItems(p, its, i + 1)

\* The nodes an invocation is to materialise, in traversal order: the driver
\* makes the items of its mapping, not the working directory itself.
ExpectedOf(m, p, t) == IF m = "driver" THEN PreOrderItems(p, t.items, 1) ELSE PreOrder(p, t)
Expected == ExpectedOf(mode, root, tree)
Declared == Range(Expected)
DeclaredPaths == {n.path : n \in Declared}

\* The node n is on the filesystem f as declared.
Realised(f, n) ==
    IF n.node.isdict THEN IsDir(f, n.path)
    ELSE IsFile(f, n.path) /\ f[n.path].data = n.node.text

\* The path p is in g what it was in f.
Same(f, g, p) ==
    IF p \in DOMAIN f THEN p \in DOMAIN g /\ g[p] = f[p] ELSE p \notin DOMAIN g

OpOf(n) == IF n.node.isdict THEN "mkdir" ELSE "write"
FailedAt == {k \in 1..Len(log) : log[k].err # ""}

\* The trees that differ from c in the order of sibling items only.
RECURSIVE Permuted(_)
Permuted(c) ==
    IF ~c.isdict THEN {c}
    ELSE LET n == Len(c.items)
             kids == UNION {Permuted(c.items[i].content) : i \in 1..n}
             orders == {g \in [1..n -> 1..n] : \A i, j \in 1..n : g[i] = g[j] => i = j}
             choices == {ch \in [1..n -> kids] :
                            \A i \in 1..n : ch[i] \in Permuted(c.items[i].content)}
         IN  {Dir([i \in 1..n |-> Item(c.items[g[i]].name, ch[g[i]])]) :
                 g \in orders, ch \in choices}

Children(f, p) == {q \in DOMAIN f : Len(q) = Len(p) + 1 /\ Parent(q) = p}

----------------------------------------------------------------------------
(* The claims.                                                             *)

\* C1 (shape fidelity): when an invocation has returned without error, every
\* node the tree declares is on the filesystem with its kind, a directory for a
\* mapping and a file for a string, and every file holds exactly its payload,
\* the empty payload included.
C1_ShapeFidelity ==
    status = "ok" => \A n \in Declared : Realised(fs, n)

C1_Witness ==
    /\ status = "ok" /\ mode = "direct" /\ Len(root) = 2
    /\ \E n \in Declared : ~n.node.isdict /\ n.node.text = "" /\ fs[n.path].data = ""
    /\ \E n \in Declared : ~n.node.isdict /\ n.node.text = "ab"
    /\ \E n \in Declared : n.node.isdict /\ n.path \notin DOMAIN fs0

\* C2 (fail-fast): a filesystem call that fails is the last call of the run:
\* the error has reached the caller, no frame is left, and no node after the
\* failing one in traversal order has been created or written.
C2_FailFast ==
    \A k \in FailedAt :
        /\ status = "error"
        /\ stack = <<>>
        /\ k = Len(log)
        /\ k <= Len(Expected) /\ log[k].path = Expected[k].path
        /\ \A j \in (k + 1)..Len(Expected) : Same(fs0, fs, Expected[j].path)

C2_Witness ==
    /\ status = "error" /\ mode = "driver"
    /\ Len(log) = 2 /\ Len(log[2].path) = 2
    /\ Len(Expected) = 3 /\ Len(Expected[3].path) = 1
    /\ Expected[3].path \notin DOMAIN fs

\* C3 (overwrite): when an invocation has returned without error, every file
\* node whose path held a file before holds exactly its payload, whatever the
\* length of the old content was.
C3_Overwrite ==
    status = "ok" =>
        \A n \in Declared :
            (~n.node.isdict /\ IsFile(fs0, n.path)) => fs[n.path].data = n.node.text

C3_Witness ==
    /\ status = "ok" /\ prev = "none"
    /\ \E n \in Declared :
          /\ ~n.node.isdict /\ IsFile(fs0, n.path)
          /\ n.node.text = "ab" /\ fs0[n.path].data = "cde"
          /\ fs[n.path].data = "ab"

\* C4 (idempotent re-run): an invocation on the filesystem that a successful
\* invocation of the same tree left does not fail, and leaves the filesystem
\* as it found it.
C4_IdempotentRerun ==
    prev = "ok" =>
        /\ status # "error"
        /\ status = "ok" => fs = fs0

C4_Witness ==
    /\ prev = "ok" /\ status = "ok"
    /\ \E n \in Declared : n.node.isdict /\ Len(n.node.items) > 0
    /\ \E n \in Declared : ~n.node.isdict /\ n.node.text = "ab"

\* C5 (order independence): when an invocation has returned without error,
\* every invocation from the same starting filesystem of a tree that differs in
\* the order of sibling items only, if it returns without error, ends in the
\* same filesystem.
C5_OrderIndependence ==
    status = "ok" =>
        \A t \in Permuted(tree) :
            LET r == Invoke(mode, fs0, free0, root, t) IN
            r.ok => r.fs = fs

C5_Witness ==
    /\ status = "ok" /\ prev = "none"
    /\ \E t \in Permuted(tree) :
          /\ t # tree
          /\ Invoke(mode, fs0, free0, root, t).ok
          /\ Len(t.items) = 2
          /\ t.items[1].content # t.items[2].content
          /\ ~t.items[1].content.isdict /\ ~t.items[2].content.isdict

\* The paths of the template's footprint in the working directory.
SrcFiles ==
    {<<"src", n>> : n \in {"__init__.py", "agent.py", "tools.py", "nodes.py",
                           "schemas.py", "config.yaml", "utils.py"}}
RootFiles ==
    {<<n>> : n \in {"server.py", "requirements.txt", ".env", "langgraph.json", "Dockerfile"}}

\* A first run of the driver on an empty working directory has ended well.
FreshRunDone == status = "ok" /\ mode = "driver" /\ prev = "none" /\ fs0 = EmptyFs

\* The footprint but for the number of files in the subdirectory.
FootprintShape ==
    /\ {p \in Children(fs, root) : IsDir(fs, p)} = {<<"src">>}
    /\ {p \in Children(fs, root) : IsFile(fs, p)} = RootFiles
    /\ Cardinality(RootFiles) = 5
    /\ \A p \in Children(fs, <<"src">>) : IsFile(fs, p)
    /\ DOMAIN fs = {root} \cup Children(fs, root) \cup Children(fs, <<"src">>)

\* C6 as stated (footprint): a successful run in an empty working directory
\* leaves one subdirectory holding six files, five files at the root, and
\* nothing else.
C6_FootprintSixFiles ==
    FreshRunDone => FootprintShape /\ Cardinality(Children(fs, <<"src">>)) = 6

\* C6 as amended (footprint): a successful run in an empty working directory
\* leaves one subdirectory holding seven files (the six of the claim and the
\* empty package marker __init__.py), five files at the root, and nothing else.
C6_FootprintSevenFiles ==
    FreshRunDone =>
        /\ FootprintShape
        /\ Children(fs, <<"src">>) = SrcFiles
        /\ Cardinality(Children(fs, <<"src">>)) = 7

C6_Witness == FreshRunDone /\ Len(log) = 13 /\ IsFile(fs, <<"src", "__init__.py">>)

\* C7 (completion reporting): the completion message is printed only when
\* every node of the template has been materialised without error, and a run
\* in which a filesystem call failed has ended in error with no completion
\* message printed.
C7_CompletionReporting ==
    /\ MsgDone \in Range(out) =>
          /\ status = "ok"
          /\ FailedAt = {}
          /\ Len(log) = Len(Expected)
          /\ \A n \in Declared : Realised(fs, n)
    /\ FailedAt # {} => status = "error" /\ MsgDone \notin Range(out)

C7_Witness ==
    /\ status = "error" /\ tree = structure /\ out = <<MsgStart>>
    /\ Len(log) = 3 /\ log[3].err = "IsADirectoryError"

C7_WitnessDone ==
    /\ status = "ok" /\ tree = structure /\ out = <<MsgStart, MsgDone, MsgHint>>

\* The proper prefixes of the path the invocation was given.
RootAncestors == {Prefix(root, k) : k \in 0..(Len(root) - 1)}

\* C8 as stated (frame): at every moment of a run, every path that the tree
\* does not name is what it was when the run started: nothing outside the
\* tree is created, changed or removed.
C8_FrameStrict ==
    \A p \in (DOMAIN fs \cup DOMAIN fs0) \ DeclaredPaths : Same(fs0, fs, p)

\* C8 as amended (frame): at every moment of a run, every path that the tree
\* does not name is what it was when the run started, except that a missing
\* ancestor of the root path may have been created as an empty directory.
C8_Frame ==
    \A p \in (DOMAIN fs \cup DOMAIN fs0) \ DeclaredPaths :
        \/ Same(fs0, fs, p)
        \/ /\ p \in RootAncestors
           /\ p \notin DOMAIN fs0
           /\ fs[p] = NewDir

C8_Witness ==
    /\ status = "ok" /\ mode = "direct" /\ root = <<"a", "b">>
    /\ <<"a">> \notin DOMAIN fs0 /\ IsDir(fs, <<"a">>)
    /\ \E n \in Declared : ~n.node.isdict /\ n.node.text = "ab"

C8_WitnessBystander ==
    /\ status \in {"ok", "error"} /\ log # <<>>
    /\ \E p \in DOMAIN fs0 \ DeclaredPaths :
          IsFile(fs0, p) /\ Parent(p) \in DeclaredPaths /\ fs[p] = fs0[p]

\* C9 (traversal order): the filesystem calls of a run are, in order, those of
\* the depth-first pre-order walk of the tree in the mapping's order: a
\* directory is made before any call on a path below it, and the calls below
\* one item are all made before the first call on a later sibling.
C9_TraversalOrder ==
    /\ Len(log) <= Len(Expected)
    /\ \A k \in 1..Len(log) :
          log[k].path = Expected[k].path /\ log[k].op = OpOf(Expected[k])
    /\ \A k \in 1..Len(log) :
          \A n \in Declared :
              (n.node.isdict /\ Len(n.path) < Len(log[k].path)
                  /\ Prefix(log[k].path, Len(n.path)) = n.path)
              => \E j \in 1..(k - 1) : log[j].path = n.path /\ log[j].op = "mkdir"
    /\ \A i, j, k \in 1..Len(log) :
          (i < j /\ j < k) =>
              \A n \in Declared :
                  (Len(n.path) <= Len(log[i].path) /\ Len(n.path) <= Len(log[k].path)
                      /\ Prefix(log[i].path, Len(n.path)) = n.path
                      /\ Prefix(log[k].path, Len(n.path)) = n.path)
                  => (Len(n.path) <= Len(log[j].path)
                         /\ Prefix(log[j].path, Len(n.path)) = n.path)

C9_Witness ==
    /\ status = "ok" /\ Len(log) = 3
    /\ log[1].op = "mkdir" /\ Parent(log[2].path) = log[1].path
    /\ Parent(log[3].path) = Parent(log[1].path)
    /\ tree.items[1].name = "b"

\* C10 (no rollback): when a run has ended in error, every directory and file
\* that a call before the failing one made is still on the filesystem as
\* declared: the directory is a directory, the file holds its whole payload.
C10_NoRollback ==
    status = "error" =>
        \A k \in 1..(Len(log) - 1) :
            /\ log[k].err = ""
            /\ \A n \in Declared : n.path = log[k].path => Realised(fs, n)

C10_Witness ==
    /\ status = "error" /\ Len(log) = 3
    /\ log[1].op = "mkdir" /\ log[1].path \notin DOMAIN fs0
    /\ log[2].op = "write" /\ fs[log[2].path].data = "ab"
====
